---------------------------- MODULE Spec2Model ----------------------------
(***************************************************************************)
(* Event-platform synchronisation and contact deduplication of zo-crm.     *)
(*                                                                         *)
(* These state machines share this module:                                 *)
(*   SpecMerge  the guest fold: deduplicateContacts of the leads page and  *)
(*              the contactMap loop of the sync route and scripts;         *)
(*   SpecBackfill, SpecOrder  the same fold on guests that differ in their *)
(*              optional data, and in their dates and tickets;             *)
(*   SpecFetch  guest enumeration of one event with its retry loops;       *)
(*   SpecPaging the same enumeration against upstreams whose has_more and  *)
(*              next_cursor disagree;                                      *)
(*   SpecCoord  the batches of guest enumerations of the two calendars;    *)
(*   SpecSync   a sync run of the route (POST) or of the script (main);    *)
(*   SpecUpsert the batched upsert loop on a contact list of any length;   *)
(*   SpecBoard  drag and drop on the kanban board and PATCH .../stage;     *)
(*   SpecClear  DELETE /api/leads/clear.                                   *)
(* Absent optional values are "" for strings and {} for numbers (a set     *)
(* holding the number when it is present), the falsy values the code's || *)
(* and ! tests treat alike.                                                *)
(***************************************************************************)
EXTENDS Integers, Sequences, FiniteSets, TLC

VARIABLES
    \* ---- the guest fold
    merger,       \* "page": deduplicateContacts, "sync": the contactMap loop
    folded,       \* the guests the forEach / for-of has visited so far
    contactMap,   \* the Map, as its entries in insertion order
    mphase,       \* "folding" until the fold's result is taken, then "returned"
    uniqueContacts, \* the fold's result: the array made of the Map's values
    \* ---- guest enumeration of one event
    fvariant,     \* "full": fetchWithRetry script, "page": leads page, "plain": route
    fphase,       \* "fetching", "returned" or "threw"
    pageNo,       \* the page the cursor points at (1 = no cursor)
    attempt,      \* fetchWithRetry's attempt / the page loop's retries
    pageLog,      \* statuses answered to the requests for the current page
    respLog,      \* statuses answered to every request of the enumeration
    reqLog,       \* pagination_cursor of every request (0 = none sent)
    waited,       \* milliseconds slept in backoff so far
    fetchedGuests,\* allGuests of the enumeration
    lastRes,      \* what the last page request gave its caller: "ok" or "null"
    pages,        \* the upstream: the event's guest pages, each with its
                  \* entries, has_more and next_cursor (0 = null)
    \* ---- a sync run
    variant,      \* "route": POST of the sync route, "script": main of sync_luma_now
    apiKeys,      \* the calendar slots that have an API key
    upGuests,     \* the upstream: the guest list of every event
    run,          \* 1 for the first run, 2 for the rerun
    pc,           \* position of the run
    outcome,      \* how the run ended
    cal,          \* the calendar slot being processed
    events,       \* events of the current calendar
    evPage,       \* next event page to request
    allGuests,    \* allGuests of the current calendar
    gIdx,         \* next event whose guests are requested
    contacts,     \* Array.from(contactMap.values()) of the current calendar
    ui,           \* the upsert loop's i
    results,      \* the run's results object
    store,        \* the contacts table, one row per email
    batchLog,     \* the upserts issued in the run: first index, size, outcome
    seen,         \* per calendar slot, the guests this run collected
    partial,      \* the slots whose event enumeration broke off after a page
    cleanRun,     \* no request and no upsert of this run has failed
    prevRun,     \* store, cleanRun and outcome as the run before left them
    \* ---- the kanban board
    initialLeads, \* the board's prop: lead id -> relationship_stage
    leads,        \* the board's state of the same shape
    activeId,     \* the card being dragged, if any
    bpc,          \* "idle", "dragging", "dropped" (no request), "awaiting" or
                  \* "reverted" (the request failed)
    overId,       \* what DndContext last reported the dragged card to be over
    dragged,      \* the card of the current or last drag
    dragFrom,     \* the column that card was shown in when the drag began
    drags,        \* the drags begun so far
    patchLog,     \* the PATCH requests issued: lead, stage, number of the drag
    dbStage,      \* contacts.relationship_stage of every lead
    \* ---- DELETE /api/leads/clear
    cvariant,     \* "batched": the loop over batches, "single": one delete
    cpc,          \* position of the handler
    rows,         \* the number of rows in contacts
    selected,     \* the number of ids the last select returned
    totalDeleted, \* totalDeleted
    response,     \* what the handler answered
    \* ---- the coordination of the guest enumerations
    coord,        \* "page": LumaLeadsPage / fetchLumaData, "route": the sync route
    srcEvents,    \* the upstream: the number of events of every source
    srcPc,        \* per source: "waiting", "events", "batch", "done" or "failed"
    srcI,         \* per source: the batch loop's i
    inflight      \* the guest enumerations started and not yet settled

mergeVars == <<merger, folded, contactMap, mphase, uniqueContacts>>
fetchVars == <<fvariant, fphase, pageNo, attempt, pageLog, respLog, reqLog, waited,
              fetchedGuests, lastRes, pages>>
syncVars == <<variant, apiKeys, upGuests, run, pc, outcome, cal, events, evPage,
              allGuests, gIdx, contacts, ui, results, store, batchLog, seen, partial,
              cleanRun, prevRun>>
boardVars == <<initialLeads, leads, activeId, bpc, overId, dragged, dragFrom, drags, patchLog,
               dbStage>>
clearVars == <<cvariant, cpc, rows, selected, totalDeleted, response>>
coordVars == <<coord, srcEvents, srcPc, srcI, inflight>>
vars == <<mergeVars, fetchVars, syncVars, boardVars, clearVars, coordVars>>

-----------------------------------------------------------------------------
(* Bounds *)

MaxGuests == 3
MaxPages == 2
MaxRuns == 2
MaxContacts == 250

-----------------------------------------------------------------------------
(* Guest records *)

Absent == ""

Emails == {"a@x.com", "A@x.com"}
UserIds == {"u1"}
EventIds == {"evt-1", "evt-2"}

\* String.prototype.toLowerCase on the addresses and the registration
\* question labels of the model.
ToLowerCase(s) ==
    CASE s = "A@x.com" -> "a@x.com"
      [] s = "B@y.com" -> "b@y.com"
      [] s = "Telegram" -> "telegram"
      [] s = "LinkedIn" -> "linkedin"
      [] OTHER -> s

\* a || b on strings: the first operand unless it is falsy (empty).
Or(a, b) == IF a # Absent THEN a ELSE b

\* LumaGuest, the fields the fold reads. Dates are numbered in their order,
\* 0 standing for a registered_at that is missing; solana_address is treated
\* by the code as eth_address is, and the twitter answer as the telegram
\* answer, so the model carries one of each kind. A guest made here has
\* answered no registration question and was created when they registered.
Guest(uid, em, uem, ev, ticket, phone, eth, at) ==
    [user_api_id |-> uid, email |-> em, user_email |-> uem, event_api_id |-> ev,
     event_ticket |-> ticket, phone_number |-> phone, eth_address |-> eth,
     registered_at |-> at, created_at |-> at, registration_answers |-> <<>>]

\* RegistrationAnswer
Answer(label, value) == [label |-> label, value |-> value]

\* the guest g with its registration_answers
Answering(g, answers) == [g EXCEPT !.registration_answers = answers]

\* the guest g created at the date created, with or without a registered_at
CreatedAt(g, created, registered) ==
    [g EXCEPT !.created_at = created, !.registered_at = registered]

\* The guests the fold is fed with: every combination of person id, email,
\* event and ticket, and guests known by their account's address user_email.
MergeGuests ==
    { Guest(uid, em, Absent, ev, t, Absent, Absent, 1) :
        uid \in UserIds \cup {Absent}, em \in Emails \cup {Absent},
        ev \in EventIds, t \in {{}, {5}} }
    \cup
    { Guest(Absent, em, "B@y.com", ev, {5}, Absent, Absent, 1) :
        em \in {"a@x.com", Absent}, ev \in EventIds }

\* guest.event_ticket?.amount || 0
TicketAmount(g) ==
    IF g.event_ticket = {} THEN 0 ELSE CHOOSE a \in g.event_ticket : TRUE

\* guest.registered_at || guest.created_at
GuestDate(g) == IF g.registered_at # 0 THEN g.registered_at ELSE g.created_at

\* String.prototype.includes on the lower-cased labels of the model
Includes(s, k) == s = k

\* extractSocialHandle: the value of the first answer whose label holds one
\* of the keywords, undefined when there is none
ExtractSocialHandle(answers, keywords) ==
    LET hits == { i \in 1..Len(answers) :
                    \E k \in keywords : Includes(ToLowerCase(answers[i].label), k) }
    IN  IF hits = {} THEN Absent
        ELSE answers[CHOOSE i \in hits : \A j \in hits : i <= j].value

-----------------------------------------------------------------------------
(* Map<string, contact> *)

\* Map.prototype.has / get: the position of the key's entry, 0 when absent.
MapIndex(m, k) ==
    IF \E i \in 1..Len(m) : m[i].key = k
    THEN CHOOSE i \in 1..Len(m) : m[i].key = k
    ELSE 0

MapKeys(m) == { m[i].key : i \in 1..Len(m) }

\* Array.from(map.values())
MapValues(m) == [i \in 1..Len(m) |-> m[i].value]

\* eventMap.get(id) || id, the events carrying their id as name here.
EventName(id) == id

\* the key of deduplicateContacts
DedupKey(g) == Or(g.user_api_id, Or(g.email, g.user_email))

\* the key of the contactMap loop
SyncKey(g) == ToLowerCase(Or(g.user_email, g.email))

\* One iteration of deduplicateContacts' forEach, with a buggy lookup that
\* never finds the existing entry.
DedupMergeNoLookup(m, g) ==
    LET key == DedupKey(g) IN
    IF key = Absent THEN m
    ELSE Append(m, [key |-> key, value |->
            [user_api_id |-> Or(g.user_api_id, key),
             email |-> Or(g.user_email, g.email),
             phone |-> g.phone_number, eth_address |-> g.eth_address,
             telegram |-> ExtractSocialHandle(g.registration_answers, {"telegram"}),
             linkedin |-> ExtractSocialHandle(g.registration_answers, {"linkedin"}),
             first_seen |-> GuestDate(g), events_count |-> 1,
             total_spent |-> TicketAmount(g),
             events |-> <<EventName(g.event_api_id)>>]])

\* One iteration of deduplicateContacts' forEach that forgets to add the
\* ticket amount of a later sighting.
DedupMergeNoSpend(m, g) ==
    LET key == DedupKey(g)
        i == MapIndex(m, key)
    IN  IF key = Absent THEN m
        ELSE IF i # 0
        THEN [m EXCEPT ![i].value.events_count = @ + 1]
        ELSE DedupMergeNoLookup(m, g)

\* One iteration of deduplicateContacts' forEach that takes the phone number
\* of a later sighting whenever the sighting has one.
DedupMergeOverwrite(m, g) ==
    LET key == DedupKey(g)
        i == MapIndex(m, key)
    IN  IF key = Absent THEN m
        ELSE IF i # 0
        THEN [m EXCEPT ![i].value =
                [@ EXCEPT !.events_count = @ + 1,
                          !.total_spent = @ + TicketAmount(g),
                          !.phone = Or(g.phone_number, @)]]
        ELSE DedupMergeNoLookup(m, g)

\* One iteration of deduplicateContacts' forEach that leaves first_seen as
\* the first sighting set it.
DedupMergeKeepFirstSeen(m, g) ==
    LET key == DedupKey(g)
        i == MapIndex(m, key)
    IN  IF key = Absent THEN m
        ELSE IF i # 0
        THEN [m EXCEPT ![i].value =
                [@ EXCEPT !.events_count = @ + 1,
                          !.total_spent = @ + TicketAmount(g)]]
        ELSE DedupMergeNoLookup(m, g)

\* One iteration of deduplicateContacts' forEach that keeps the ticket
\* amount of the latest sighting in place of the sum.
DedupMergeLastSpend(m, g) ==
    LET key == DedupKey(g)
        i == MapIndex(m, key)
    IN  IF key = Absent THEN m
        ELSE IF i # 0
        THEN [m EXCEPT ![i].value =
                [@ EXCEPT !.events_count = @ + 1,
                          !.total_spent = TicketAmount(g),
                          !.first_seen = IF GuestDate(g) < @ THEN GuestDate(g) ELSE @]]
        ELSE DedupMergeNoLookup(m, g)

\* One iteration of deduplicateContacts' forEach.
DedupMerge(m, g) ==
    LET key == DedupKey(g)
        i == MapIndex(m, key)
        eventName == EventName(g.event_api_id)
    IN  IF key = Absent THEN m
        ELSE IF i # 0
        THEN [m EXCEPT ![i].value =
                [@ EXCEPT
                   !.events_count = @ + 1,
                   !.total_spent = @ + TicketAmount(g),
                   !.events = IF \E j \in 1..Len(@) : @[j] = eventName
                              THEN @ ELSE Append(@, eventName),
                   !.phone = IF @ = Absent THEN g.phone_number ELSE @,
                   !.eth_address = IF @ = Absent THEN g.eth_address ELSE @,
                   !.telegram = IF @ = Absent
                                THEN ExtractSocialHandle(g.registration_answers, {"telegram"})
                                ELSE @,
                   !.linkedin = IF @ = Absent
                                THEN ExtractSocialHandle(g.registration_answers, {"linkedin"})
                                ELSE @,
                   !.first_seen = IF GuestDate(g) < @ THEN GuestDate(g) ELSE @]]
        ELSE Append(m, [key |-> key, value |->
                [user_api_id |-> Or(g.user_api_id, key),
                 email |-> Or(g.user_email, g.email),
                 phone |-> g.phone_number, eth_address |-> g.eth_address,
                 telegram |-> ExtractSocialHandle(g.registration_answers, {"telegram"}),
                 linkedin |-> ExtractSocialHandle(g.registration_answers, {"linkedin"}),
                 first_seen |-> GuestDate(g), events_count |-> 1,
                 total_spent |-> TicketAmount(g),
                 events |-> <<eventName>>]])

\* One iteration of the contactMap loop of the sync run for calendar calName.
SyncMerge(m, g, calName) ==
    LET email == SyncKey(g)
        i == MapIndex(m, email)
    IN  IF email = Absent THEN m
        ELSE IF i # 0
        THEN [m EXCEPT ![i].value =
                [@ EXCEPT
                   !.events_attended = @ + 1,
                   !.total_spent = @ + TicketAmount(g),
                   !.phone = IF @ = Absent THEN g.phone_number ELSE @,
                   !.eth_address = IF @ = Absent THEN g.eth_address ELSE @,
                   !.telegram = IF @ = Absent
                                THEN ExtractSocialHandle(g.registration_answers, {"telegram"})
                                ELSE @]]
        ELSE Append(m, [key |-> email, value |->
                [email |-> email, phone |-> g.phone_number,
                 telegram |-> ExtractSocialHandle(g.registration_answers, {"telegram"}),
                 linkedin |-> ExtractSocialHandle(g.registration_answers, {"linkedin"}),
                 eth_address |-> g.eth_address, luma_user_id |-> g.user_api_id,
                 events_attended |-> 1, total_spent |-> TicketAmount(g),
                 source_detail |-> calName]])

RECURSIVE DedupMergeAll(_, _)
\* the whole forEach of deduplicateContacts, starting from the map m
DedupMergeAll(m, gs) ==
    IF gs = <<>> THEN m ELSE DedupMergeAll(DedupMerge(m, Head(gs)), Tail(gs))

RECURSIVE SyncMergeAll(_, _, _)
\* the whole for-of loop over allGuests, starting from the map m
SyncMergeAll(m, gs, calName) ==
    IF gs = <<>> THEN m
    ELSE SyncMergeAll(SyncMerge(m, Head(gs), calName), Tail(gs), calName)

RECURSIVE InsertByCount(_, _)
\* c put into the list xs (sorted by events_count, descending) after the
\* elements that do not count less: the place a stable sort gives it.
InsertByCount(xs, c) ==
    IF xs = <<>> THEN <<c>>
    ELSE IF Head(xs).events_count >= c.events_count
         THEN <<Head(xs)>> \o InsertByCount(Tail(xs), c)
         ELSE <<c>> \o xs

RECURSIVE SortByCount(_)
\* Array.prototype.sort((a, b) => b.events_count - a.events_count), stable
SortByCount(xs) ==
    IF xs = <<>> THEN <<>>
    ELSE InsertByCount(SortByCount(SubSeq(xs, 1, Len(xs) - 1)), xs[Len(xs)])

-----------------------------------------------------------------------------
(* The guest fold as a state machine *)

CalendarName(c) == IF c = 1 THEN "Calendar 1" ELSE "Calendar 2"

MergeIdle ==
    /\ merger = "none"
    /\ folded = <<>>
    /\ contactMap = <<>>
    /\ mphase = "idle"
    /\ uniqueContacts = <<>>

FetchIdle ==
    /\ fvariant = "none"
    /\ fphase = "idle"
    /\ pageNo = 0
    /\ attempt = 0
    /\ pageLog = <<>>
    /\ respLog = <<>>
    /\ reqLog = <<>>
    /\ waited = 0
    /\ fetchedGuests = <<>>
    /\ lastRes = "none"
    /\ pages = <<>>

NoResults == [calendars |-> <<>>, totalContacts |-> 0, imported |-> 0, errors |-> 0]

NoPrevRun == [store |-> <<>>, clean |-> FALSE, outcome |-> "none"]

SyncIdle ==
    /\ variant = "none"
    /\ apiKeys = {}
    /\ upGuests = <<>>
    /\ run = 0
    /\ pc = "idle"
    /\ outcome = "none"
    /\ cal = 0
    /\ events = <<>>
    /\ evPage = 0
    /\ allGuests = <<>>
    /\ gIdx = 0
    /\ contacts = <<>>
    /\ ui = 0
    /\ results = NoResults
    /\ store = <<>>
    /\ batchLog = <<>>
    /\ seen = <<>>
    /\ partial = {}
    /\ cleanRun = TRUE
    /\ prevRun = NoPrevRun

BoardIdle ==
    /\ initialLeads = <<>>
    /\ leads = <<>>
    /\ activeId = Absent
    /\ bpc = "none"
    /\ overId = Absent
    /\ dragged = Absent
    /\ dragFrom = Absent
    /\ drags = 0
    /\ patchLog = <<>>
    /\ dbStage = <<>>

CoordIdle ==
    /\ coord = "none"
    /\ srcEvents = <<>>
    /\ srcPc = <<>>
    /\ srcI = <<>>
    /\ inflight = {}

ClearIdle ==
    /\ cvariant = "none"
    /\ cpc = "none"
    /\ rows = 0
    /\ selected = 0
    /\ totalDeleted = 0
    /\ response = "none"

InitMerge ==
    /\ merger \in {"page", "sync"}
    /\ folded = <<>>
    /\ contactMap = <<>>
    /\ mphase = "folding"
    /\ uniqueContacts = <<>>
    /\ FetchIdle
    /\ SyncIdle
    /\ BoardIdle
    /\ ClearIdle
    /\ CoordIdle

\* guests.forEach(guest => ...) of deduplicateContacts, one guest
FoldPage(g) ==
    /\ merger = "page"
    /\ mphase = "folding"
    /\ Len(folded) < MaxGuests
    /\ contactMap' = DedupMerge(contactMap, g)
    /\ folded' = Append(folded, g)
    /\ UNCHANGED <<merger, mphase, uniqueContacts>>
    /\ UNCHANGED <<fetchVars, syncVars, boardVars, clearVars, coordVars>>

\* for (const guest of allGuests) of the sync run, one guest
FoldSync(g) ==
    /\ merger = "sync"
    /\ mphase = "folding"
    /\ Len(folded) < MaxGuests
    /\ contactMap' = SyncMerge(contactMap, g, CalendarName(1))
    /\ folded' = Append(folded, g)
    /\ UNCHANGED <<merger, mphase, uniqueContacts>>
    /\ UNCHANGED <<fetchVars, syncVars, boardVars, clearVars, coordVars>>

\* return Array.from(contactMap.values()).sort(...) of deduplicateContacts
ReturnPage ==
    /\ merger = "page"
    /\ mphase = "folding"
    /\ uniqueContacts' = SortByCount(MapValues(contactMap))
    /\ mphase' = "returned"
    /\ UNCHANGED <<merger, folded, contactMap>>
    /\ UNCHANGED <<fetchVars, syncVars, boardVars, clearVars, coordVars>>

\* const contacts = Array.from(contactMap.values()) of the sync run
ReturnSync ==
    /\ merger = "sync"
    /\ mphase = "folding"
    /\ uniqueContacts' = MapValues(contactMap)
    /\ mphase' = "returned"
    /\ UNCHANGED <<merger, folded, contactMap>>
    /\ UNCHANGED <<fetchVars, syncVars, boardVars, clearVars, coordVars>>

NextMerge ==
    \/ \E g \in MergeGuests : FoldPage(g)
    \/ \E g \in MergeGuests : FoldSync(g)
    \/ ReturnPage
    \/ ReturnSync

SpecMerge == InitMerge /\ [][NextMerge]_vars

-----------------------------------------------------------------------------
(* Properties of the guest fold *)

\* the identity key the running merger computes for a guest
KeyOf(g) == IF merger = "page" THEN DedupKey(g) ELSE SyncKey(g)

\* the sightings folded so far that carry the key k
Sightings(k) == { i \in 1..Len(folded) : KeyOf(folded[i]) = k }

FoldedKeys == { KeyOf(folded[i]) : i \in 1..Len(folded) } \ {Absent}

RECURSIVE SumAmounts(_)
\* the ticket amounts of the sightings at the positions in S, added up
SumAmounts(S) ==
    IF S = {} THEN 0
    ELSE LET i == CHOOSE j \in S : TRUE
         IN  TicketAmount(folded[i]) + SumAmounts(S \ {i})

\* the attendance counter of a contact of either merger
CountOf(c) == IF merger = "page" THEN c.events_count ELSE c.events_attended

C2_CountsDistinctEvents ==
    \A i \in 1..Len(contactMap) :
        CountOf(contactMap[i].value) =
            Cardinality({ folded[j].event_api_id : j \in Sightings(contactMap[i].key) })

\* C4: every contact's total_spent is the sum of the ticket amounts of all
\* sightings folded into it, a missing ticket counting 0, and is not negative.
C4_TotalSpentIsSum ==
    \A i \in 1..Len(contactMap) :
        /\ contactMap[i].value.total_spent = SumAmounts(Sightings(contactMap[i].key))
        /\ contactMap[i].value.total_spent >= 0

C4_Witness ==
    \E i \in 1..Len(contactMap) :
        /\ contactMap[i].value.total_spent = 10
        /\ Cardinality(Sightings(contactMap[i].key)) = 3
        /\ \E j \in Sightings(contactMap[i].key) : folded[j].event_ticket = {}
        /\ Cardinality({ folded[j].event_api_id : j \in Sightings(contactMap[i].key) }) = 1

-----------------------------------------------------------------------------
(* Guest enumeration of one event *)

\* What a request can be answered with: an HTTP status, or 0 for a fetch()
\* that rejects (network error).
NetworkError == 0
Statuses == {200, 429, 500, NetworkError}

\* fetchWithRetry's default maxRetries
FetchWithRetryMaxTooFew == 5 - 2
FetchWithRetryMax == 5

\* maxRetries of the leads page's fetchAllGuests
PageGuestMaxRetries == 2

\* Math.pow(2, n)
RECURSIVE Pow2(_)
Pow2(n) == IF n = 0 THEN 1 ELSE 2 * Pow2(n - 1)

Min(a, b) == IF a < b THEN a ELSE b

\* fetchWithRetry's wait after a 429 answered to attempt a (milliseconds)
RateLimitWait(a) == Min(1000 * Pow2(a), 30000)

\* fetchWithRetry's wait after a network error at attempt a
NetworkErrorWait(a) == 1000 * Pow2(a)

\* the loop counter after an attempt that is to be retried, were the
\* attempt not counted
AttemptNotCounted(a) == a

\* the loop counter after an attempt that is to be retried: the for loop's
\* attempt++ and the page loop's retries++
AfterFailedAttempt(a) == a + 1

\* res.status === 429, were every failing status taken for a rate limit
IsNotOk(status) == status # 200

\* res.status === 429
IsRateLimited(status) == status = 429

\* the upstream's guest pages of an event with n pages, two guests a page:
\* every page but the last says has_more and names the next page as its
\* next_cursor (the cursor of page p is written p, 0 is null)
PagesOf(n) ==
    [p \in 1..n |-> [entries |-> <<2 * p - 1, 2 * p>>,
                     has_more |-> p < n,
                     next_cursor |-> IF p < n THEN p + 1 ELSE 0]]

\* the pagination_cursor of the request for page p: the first page is the
\* one requested without a cursor
CursorOf(p) == IF p = 1 THEN 0 ELSE p

\* cursor = data.next_cursor || null, were the cursor dropped
NextCursorDropped(data) == 0

\* cursor = data.next_cursor || null
NextCursor(data) == data.next_cursor

RECURSIVE Flatten(_)
Flatten(ps) == IF ps = <<>> THEN <<>> ELSE Head(ps).entries \o Flatten(Tail(ps))

InitFetch ==
    /\ fvariant \in {"full", "page", "plain"}
    /\ pages \in { PagesOf(n) : n \in 1..MaxPages }
    /\ fphase = "fetching"
    /\ pageNo = 1
    /\ attempt = 0
    /\ pageLog = <<>>
    /\ respLog = <<>>
    /\ reqLog = <<>>
    /\ waited = 0
    /\ fetchedGuests = <<>>
    /\ lastRes = "none"
    /\ MergeIdle
    /\ SyncIdle
    /\ BoardIdle
    /\ ClearIdle
    /\ CoordIdle

\* the rest of the while loop's body once the page has arrived: push the
\* entries, follow has_more and next_cursor; pause is the delay taken before
\* the next page
ConsumePage(pause) ==
    LET data == pages[pageNo]
    IN  /\ fetchedGuests' = fetchedGuests \o data.entries
        /\ lastRes' = "ok"
        /\ attempt' = 0
        /\ pageNo' = (IF NextCursor(data) = 0 THEN 1 ELSE NextCursor(data))
        /\ IF data.has_more
           THEN /\ waited' = waited + pause
                /\ fphase' = "fetching"
           ELSE /\ fphase' = "returned"
                /\ UNCHANGED waited

\* the enumeration stops without the page: break, return allGuests
GiveUp ==
    /\ lastRes' = "null"
    /\ fphase' = "returned"
    /\ UNCHANGED <<fetchedGuests, pageNo>>

\* One request of fetchWithRetry, called by the full sync script's
\* fetchAllGuests, answered with status. (In all three loops the entries of
\* at most MaxPages pages are followed: an upstream that never ends the
\* enumeration is cut off there.)
FullAttempt(status) ==
    /\ fvariant = "full"
    /\ fphase = "fetching"
    /\ Len(fetchedGuests) < 2 * MaxPages
    /\ attempt < FetchWithRetryMax
    /\ pageLog' = (IF attempt = 0 THEN <<>> ELSE pageLog) \o <<status>>
    /\ respLog' = Append(respLog, status)
    /\ reqLog' = Append(reqLog, CursorOf(pageNo))
    /\ CASE status = 200 -> ConsumePage(150)
         [] IsRateLimited(status) ->
              /\ waited' = waited + RateLimitWait(attempt)
              /\ attempt' = AfterFailedAttempt(attempt)
              /\ IF AfterFailedAttempt(attempt) < FetchWithRetryMax
                 THEN UNCHANGED <<fetchedGuests, pageNo, lastRes, fphase>>
                 ELSE GiveUp
         [] status = NetworkError ->
              /\ waited' = waited + NetworkErrorWait(attempt)
              /\ attempt' = AfterFailedAttempt(attempt)
              /\ IF AfterFailedAttempt(attempt) < FetchWithRetryMax
                 THEN UNCHANGED <<fetchedGuests, pageNo, lastRes, fphase>>
                 ELSE GiveUp
         [] OTHER -> GiveUp /\ UNCHANGED <<waited, attempt>>
    /\ UNCHANGED <<fvariant, pages>>
    /\ UNCHANGED <<mergeVars, syncVars, boardVars, clearVars, coordVars>>

\* One request of the leads page's fetchAllGuests, answered with status.
PageAttempt(status) ==
    /\ fvariant = "page"
    /\ fphase = "fetching"
    /\ Len(fetchedGuests) < 2 * MaxPages
    /\ attempt < PageGuestMaxRetries
    /\ pageLog' = (IF attempt = 0 THEN <<>> ELSE pageLog) \o <<status>>
    /\ respLog' = Append(respLog, status)
    /\ reqLog' = Append(reqLog, CursorOf(pageNo))
    /\ CASE status = 200 -> ConsumePage(0)
         [] status = NetworkError ->
              /\ attempt' = AfterFailedAttempt(attempt)
              /\ IF AfterFailedAttempt(attempt) >= PageGuestMaxRetries
                 THEN GiveUp /\ UNCHANGED waited
                 ELSE /\ waited' = waited + 1000
                      /\ UNCHANGED <<fetchedGuests, pageNo, lastRes, fphase>>
         [] OTHER ->
              /\ attempt' = AfterFailedAttempt(attempt)
              /\ UNCHANGED waited
              /\ IF AfterFailedAttempt(attempt) < PageGuestMaxRetries
                 THEN UNCHANGED <<fetchedGuests, pageNo, lastRes, fphase>>
                 ELSE GiveUp
    /\ UNCHANGED <<fvariant, pages>>
    /\ UNCHANGED <<mergeVars, syncVars, boardVars, clearVars, coordVars>>

\* One request of the sync route's fetchAllGuests, answered with status.
PlainAttempt(status) ==
    /\ fvariant = "plain"
    /\ fphase = "fetching"
    /\ Len(fetchedGuests) < 2 * MaxPages
    /\ pageLog' = <<status>>
    /\ respLog' = Append(respLog, status)
    /\ reqLog' = Append(reqLog, CursorOf(pageNo))
    /\ CASE status = 200 -> ConsumePage(0)
         [] status = NetworkError ->
              /\ fphase' = "threw"
              /\ UNCHANGED <<fetchedGuests, pageNo, lastRes, waited, attempt>>
         [] OTHER -> GiveUp /\ UNCHANGED <<waited, attempt>>
    /\ UNCHANGED <<fvariant, pages>>
    /\ UNCHANGED <<mergeVars, syncVars, boardVars, clearVars, coordVars>>

NextFetch ==
    \/ \E status \in Statuses : FullAttempt(status)
    \/ \E status \in Statuses : PageAttempt(status)
    \/ \E status \in Statuses : PlainAttempt(status)

SpecFetch == InitFetch /\ [][NextFetch]_vars

-----------------------------------------------------------------------------
(* Properties of guest enumeration *)

\* the attempts the running enumeration allows for one page
MaxAttempts ==
    CASE fvariant = "full" -> FetchWithRetryMax
      [] fvariant = "page" -> PageGuestMaxRetries
      [] OTHER -> 1

Only429(log) == \A i \in 1..Len(log) : log[i] = 429

\* C7: a page is requested at most the configured maximum number of times;
\* when every one of these requests was answered 429 the page fetch has
\* yielded its failure and the enumeration has returned; and the requests of
\* an enumeration never exceed pages * maximum, so it cannot go on for ever.
C7_BoundedRetries ==
    /\ Len(pageLog) <= MaxAttempts
    /\ (Only429(pageLog) /\ Len(pageLog) = MaxAttempts) =>
          (fphase = "returned" /\ lastRes = "null")
    /\ Len(respLog) <= Len(pages) * MaxAttempts

C7_Witness ==
    /\ fvariant = "full"
    /\ pageLog = <<429, 429, 429, 429, 429>>
    /\ pageNo = 2
    /\ fphase = "returned"

\* the upstream answers 429 to the first three requests and 200 afterwards
Three429ThenOk(log) ==
    \A i \in 1..Len(log) : log[i] = (IF i <= 3 THEN 429 ELSE 200)

\* C8 as claimed: in the script's and the page's enumeration alike, against
\* an upstream that answers 429 three times and then 200, the enumeration
\* returns the event's complete guest list and no failed page.
C8_Original ==
    (fvariant \in {"full", "page"} /\ fphase = "returned" /\ Three429ThenOk(respLog)) =>
        (fetchedGuests = Flatten(pages) /\ lastRes = "ok")

\* C8 amended: this holds of the enumeration built on fetchWithRetry.
C8_RetryThenComplete ==
    (fvariant = "full" /\ fphase = "returned" /\ Three429ThenOk(respLog)) =>
        (fetchedGuests = Flatten(pages) /\ lastRes = "ok")

C8_Witness ==
    /\ fvariant = "full"
    /\ fphase = "returned"
    /\ respLog = <<429, 429, 429, 200, 200>>
    /\ fetchedGuests = <<1, 2, 3, 4>>

-----------------------------------------------------------------------------
(* A sync run *)

\* upsertBatchSize
UpsertBatchSize == 100

\* The upstream's calendars: the event pages list-events answers per slot.
CalendarEventPages(c) ==
    IF c = 1 THEN << <<"evt-1">>, <<"evt-2">> >> ELSE << <<"evt-3">> >>

SyncEvents == {"evt-1", "evt-2", "evt-3"}

\* The guest lists an event may have upstream: one person, or that person
\* and a second one who registered with a capitalised address and no ticket,
\* or that person and a record that has neither person id nor email.
GuestLists(e) ==
    { << Guest("u1", "a@x.com", Absent, e, {5}, Absent, Absent, 1) >>,
      << Guest("u1", "a@x.com", Absent, e, {5}, Absent, Absent, 1),
         Guest("u2", Absent, "B@y.com", e, {}, Absent, Absent, 1) >>,
      << Guest("u1", "a@x.com", Absent, e, {5}, Absent, Absent, 1),
         Guest(Absent, Absent, Absent, e, {}, "p1", Absent, 1) >> }

\* ON CONFLICT (email) DO UPDATE that adds the counters to the stored ones
OnConflictAdd(old, row) ==
    [row EXCEPT !.events_attended = @ + old.events_attended,
                !.total_spent = @ + old.total_spent]

\* onConflict: 'email', ignoreDuplicates: false: the stored row of the
\* email takes the values of the row sent
OnConflictUpdate(old, row) == row

\* supabase.from('contacts').upsert(batch, ...) that succeeds: the rows of
\* the batch (distinct emails, being the values of one Map) replace the
\* stored rows of their email, the others are inserted.
UpsertRows(table, batch) ==
    LET sent(e) == CHOOSE j \in 1..Len(batch) : batch[j].email = e
        updated == [i \in 1..Len(table) |->
                      IF \E j \in 1..Len(batch) : batch[j].email = table[i].email
                      THEN OnConflictUpdate(table[i], batch[sent(table[i].email)])
                      ELSE table[i]]
        isNew(r) == \A i \in 1..Len(table) : table[i].email # r.email
    IN  updated \o SelectSeq(batch, isNew)

\* results.imported += data?.length || 0, were a batch counted as one
ImportedCountsBatches(imported, data) == imported + 1

\* results.imported += data?.length || 0 after a batch that was accepted;
\* data, what .select() returns, is the rows of the batch
ImportedAfterSuccess(imported, data) == imported + Len(data)

\* results.errors after a failed batch, counting the batch as one error
ErrorsCountBatches(errors, batch) == errors + 1

\* results.errors += batch.length
ErrorsAfterFailure(errors, batch) == errors + Len(batch)

\* contacts.slice(i, i + upsertBatchSize)
BatchAt(cs, i) == SubSeq(cs, i + 1, Min(i + UpsertBatchSize, Len(cs)))

\* the state a run starts from, the store and the upstream left as they are
RunStart ==
    /\ pc' = "start"
    /\ outcome' = "none"
    /\ cal' = 0
    /\ events' = <<>>
    /\ evPage' = 0
    /\ allGuests' = <<>>
    /\ gIdx' = 0
    /\ contacts' = <<>>
    /\ ui' = 0
    /\ results' = NoResults
    /\ batchLog' = <<>>
    /\ seen' = [c \in {1, 2} |-> <<>>]
    /\ partial' = {}
    /\ cleanRun' = TRUE

InitSync ==
    /\ variant \in {"route", "script"}
    /\ apiKeys \in SUBSET {1, 2}
    /\ upGuests \in [SyncEvents -> UNION { GuestLists(e) : e \in SyncEvents }]
    /\ \A e \in SyncEvents : upGuests[e] \in GuestLists(e)
    /\ run = 1
    /\ pc = "start"
    /\ outcome = "none"
    /\ cal = 0
    /\ events = <<>>
    /\ evPage = 0
    /\ allGuests = <<>>
    /\ gIdx = 0
    /\ contacts = <<>>
    /\ ui = 0
    /\ results = NoResults
    /\ store = <<>>
    /\ batchLog = <<>>
    /\ seen = [c \in {1, 2} |-> <<>>]
    /\ partial = {}
    /\ cleanRun = TRUE
    /\ prevRun = NoPrevRun
    /\ MergeIdle
    /\ FetchIdle
    /\ BoardIdle
    /\ ClearIdle
    /\ CoordIdle

\* The run ends with an exception: the route's catch answers status 500
\* with { success: false, error }, the script's main() rejects and
\* main().catch(console.error) logs it; neither reports results.
Throw ==
    /\ pc' = "ended"
    /\ outcome' = IF variant = "route" THEN "error500" ELSE "rejected"
    /\ cleanRun' = FALSE

\* Entry of POST / main up to the calendar loop: the script exits when no
\* slot has an API key, the route checks nothing.
StartRun ==
    /\ pc = "start"
    /\ IF variant = "script" /\ apiKeys = {}
       THEN /\ pc' = "ended"
            /\ outcome' = "exit"
            /\ UNCHANGED cal
       ELSE /\ pc' = "calendar"
            /\ cal' = 1
            /\ UNCHANGED outcome
    /\ UNCHANGED <<variant, apiKeys, upGuests, run, events, evPage, allGuests, gIdx,
                   contacts, ui, results, store, batchLog, seen, partial, cleanRun,
                   prevRun>>
    /\ UNCHANGED <<mergeVars, fetchVars, boardVars, clearVars, coordVars>>

\* Head of the calendar loop: a slot without key is skipped (continue), a
\* slot with a key starts its event enumeration.
BeginCalendar ==
    /\ pc = "calendar"
    /\ cal <= 2
    /\ IF cal \in apiKeys
       THEN /\ pc' = "events"
            /\ evPage' = 1
            /\ events' = <<>>
            /\ UNCHANGED cal
       ELSE /\ cal' = cal + 1
            /\ UNCHANGED <<pc, evPage, events>>
    /\ UNCHANGED <<variant, apiKeys, upGuests, run, outcome, allGuests, gIdx, contacts,
                   ui, results, store, batchLog, seen, partial, cleanRun, prevRun>>
    /\ UNCHANGED <<mergeVars, fetchVars, boardVars, clearVars, coordVars>>

\* One request of fetchAllEvents, answered with status.
FetchEventsPage(status) ==
    /\ pc = "events"
    /\ CASE status = 200 ->
              /\ events' = events \o CalendarEventPages(cal)[evPage]
              /\ IF evPage < Len(CalendarEventPages(cal))
                 THEN /\ evPage' = evPage + 1
                      /\ UNCHANGED <<pc, gIdx, allGuests>>
                 ELSE /\ pc' = "guests"
                      /\ gIdx' = 1
                      /\ allGuests' = <<>>
                      /\ UNCHANGED evPage
              /\ UNCHANGED <<outcome, cleanRun, partial>>
         [] status = NetworkError ->
              /\ Throw
              /\ partial' = IF evPage > 1 THEN partial \cup {cal} ELSE partial
              /\ UNCHANGED <<events, evPage, gIdx, allGuests>>
         [] OTHER ->
              /\ pc' = "guests"
              /\ gIdx' = 1
              /\ allGuests' = <<>>
              /\ cleanRun' = FALSE
              /\ partial' = IF evPage > 1 THEN partial \cup {cal} ELSE partial
              /\ UNCHANGED <<events, evPage, outcome>>
    /\ UNCHANGED <<variant, apiKeys, upGuests, run, cal, contacts, ui, results, store,
                   batchLog, seen, prevRun>>
    /\ UNCHANGED <<mergeVars, fetchVars, boardVars, clearVars, coordVars>>

\* fetchAllGuests of the next event of the batch handed to Promise.all, its
\* one page answered with status. A rejection rejects Promise.all.
FetchEventGuests(status) ==
    /\ pc = "guests"
    /\ gIdx <= Len(events)
    /\ CASE status = 200 ->
              /\ allGuests' = allGuests \o upGuests[events[gIdx]]
              /\ gIdx' = gIdx + 1
              /\ UNCHANGED <<pc, outcome, cleanRun>>
         [] status = NetworkError ->
              /\ Throw
              /\ UNCHANGED <<allGuests, gIdx>>
         [] OTHER ->
              /\ gIdx' = gIdx + 1
              /\ cleanRun' = FALSE
              /\ UNCHANGED <<allGuests, pc, outcome>>
    /\ UNCHANGED <<variant, apiKeys, upGuests, run, cal, events, evPage, contacts, ui,
                   results, store, batchLog, seen, partial, prevRun>>
    /\ UNCHANGED <<mergeVars, fetchVars, boardVars, clearVars, coordVars>>

\* After the guest batches: results.calendars.push, the contactMap loop over
\* allGuests (a Map of this calendar alone), contacts and totalContacts.
MergeCalendar ==
    /\ pc = "guests"
    /\ gIdx > Len(events)
    /\ LET merged == MapValues(SyncMergeAll(<<>>, allGuests, CalendarName(cal)))
       IN  /\ contacts' = merged
           /\ results' = [results EXCEPT
                 !.calendars = Append(@, [name |-> CalendarName(cal),
                                          events |-> Len(events),
                                          guests |-> Len(allGuests)]),
                 !.totalContacts = @ + Len(merged)]
    /\ seen' = [seen EXCEPT ![cal] = allGuests]
    /\ ui' = 0
    /\ pc' = "upsert"
    /\ UNCHANGED <<variant, apiKeys, upGuests, run, outcome, cal, events, evPage,
                   allGuests, gIdx, store, batchLog, partial, cleanRun, prevRun>>
    /\ UNCHANGED <<mergeVars, fetchVars, boardVars, clearVars, coordVars>>

\* One iteration of the upsert loop; ok tells whether the store accepted
\* the batch (supabase-js returns { error }, it does not throw).
UpsertBatch(ok) ==
    /\ pc = "upsert"
    /\ ui < Len(contacts)
    /\ LET batch == BatchAt(contacts, ui)
       IN  /\ IF ok
              THEN /\ store' = UpsertRows(store, batch)
                   /\ results' = [results EXCEPT
                                    !.imported = ImportedAfterSuccess(@, batch)]
                   /\ UNCHANGED cleanRun
              ELSE /\ results' = [results EXCEPT
                                    !.errors = ErrorsAfterFailure(@, batch)]
                   /\ cleanRun' = FALSE
                   /\ UNCHANGED store
           /\ batchLog' = Append(batchLog, [from |-> ui, size |-> Len(batch), ok |-> ok])
    /\ ui' = ui + UpsertBatchSize
    /\ UNCHANGED <<variant, apiKeys, upGuests, run, pc, outcome, cal, events, evPage,
                   allGuests, gIdx, contacts, seen, partial, prevRun>>
    /\ UNCHANGED <<mergeVars, fetchVars, boardVars, clearVars, coordVars>>

\* The upsert loop ends; the calendar loop goes on to the next slot.
EndCalendar ==
    /\ pc = "upsert"
    /\ ui >= Len(contacts)
    /\ pc' = "calendar"
    /\ cal' = cal + 1
    /\ UNCHANGED <<variant, apiKeys, upGuests, run, outcome, events, evPage, allGuests,
                   gIdx, contacts, ui, results, store, batchLog, seen, partial, cleanRun,
                   prevRun>>
    /\ UNCHANGED <<mergeVars, fetchVars, boardVars, clearVars, coordVars>>

\* After the calendar loop: the route answers { success: true, ...results },
\* the script prints the summary.
Report ==
    /\ pc = "calendar"
    /\ cal > 2
    /\ pc' = "ended"
    /\ outcome' = "result"
    /\ UNCHANGED <<variant, apiKeys, upGuests, run, cal, events, evPage, allGuests, gIdx,
                   contacts, ui, results, store, batchLog, seen, partial, cleanRun,
                   prevRun>>
    /\ UNCHANGED <<mergeVars, fetchVars, boardVars, clearVars, coordVars>>

\* The sync is run again, against the same upstream and the store as the
\* run before left it.
Rerun ==
    /\ pc = "ended"
    /\ run < MaxRuns
    /\ run' = run + 1
    /\ prevRun' = [store |-> store, clean |-> cleanRun, outcome |-> outcome]
    /\ RunStart
    /\ UNCHANGED <<variant, apiKeys, upGuests, store>>
    /\ UNCHANGED <<mergeVars, fetchVars, boardVars, clearVars, coordVars>>

\* the statuses the run's requests are answered with (any status that is
\* not ok makes the enumerations of the route and the script break alike)
SyncStatuses == {200, 429, NetworkError}

NextSync ==
    \/ StartRun
    \/ BeginCalendar
    \/ \E status \in SyncStatuses : FetchEventsPage(status)
    \/ \E status \in SyncStatuses : FetchEventGuests(status)
    \/ MergeCalendar
    \/ \E ok \in BOOLEAN : UpsertBatch(ok)
    \/ EndCalendar
    \/ Report
    \/ Rerun

SpecSync == InitSync /\ [][NextSync]_vars

-----------------------------------------------------------------------------
(* The upsert loop on a contact list of any length *)

\* n prepared contacts, the i-th with the address i
ContactsOf(n) ==
    [i \in 1..n |-> [email |-> i, phone |-> Absent, eth_address |-> Absent,
                     telegram |-> Absent, linkedin |-> Absent,
                     luma_user_id |-> Absent, events_attended |-> 1,
                     total_spent |-> 0, source_detail |-> CalendarName(1)]]

InitUpsert ==
    /\ variant = "route"
    /\ apiKeys = {1}
    /\ upGuests = <<>>
    /\ run = 1
    /\ pc = "upsert"
    /\ outcome = "none"
    /\ cal = 1
    /\ events = <<>>
    /\ evPage = 1
    /\ allGuests = <<>>
    /\ gIdx = 1
    /\ contacts \in { ContactsOf(n) : n \in 0..MaxContacts }
    /\ ui = 0
    /\ results = [NoResults EXCEPT !.totalContacts = Len(contacts)]
    /\ store = <<>>
    /\ batchLog = <<>>
    /\ seen = [c \in {1, 2} |-> <<>>]
    /\ partial = {}
    /\ cleanRun = TRUE
    /\ prevRun = NoPrevRun
    /\ MergeIdle
    /\ FetchIdle
    /\ BoardIdle
    /\ ClearIdle
    /\ CoordIdle

NextUpsert ==
    \/ \E ok \in BOOLEAN : UpsertBatch(ok)
    \/ EndCalendar

SpecUpsert == InitUpsert /\ [][NextUpsert]_vars

-----------------------------------------------------------------------------
(* Properties of the sync run *)

\* the guests the run collected from both calendars
AllSeen == seen[1] \o seen[2]

SeenKeys(gs) == { SyncKey(gs[i]) : i \in 1..Len(gs) } \ {Absent}

RECURSIVE SpentOn(_, _)
\* the ticket amounts of the sightings of key k in gs, added up
SpentOn(gs, k) ==
    IF gs = <<>> THEN 0
    ELSE (IF SyncKey(Head(gs)) = k THEN TicketAmount(Head(gs)) ELSE 0)
         + SpentOn(Tail(gs), k)

EventsOf(gs, k) == { gs[i].event_api_id : i \in { j \in 1..Len(gs) : SyncKey(gs[j]) = k } }

StoredRows(k) == { i \in 1..Len(store) : store[i].email = k }

\* C3: after a run in which nothing failed, a person met in the guest lists
\* of both calendars is one contact of the run and one row of the store,
\* and the row's events_attended and total_spent cover the sightings of both
\* calendars.
C3_OneContactAcrossSources ==
    (outcome = "result" /\ cleanRun) =>
        /\ results.totalContacts = Cardinality(SeenKeys(AllSeen))
        /\ \A k \in SeenKeys(seen[1]) \cap SeenKeys(seen[2]) :
              /\ Cardinality(StoredRows(k)) = 1
              /\ \A i \in StoredRows(k) :
                    /\ store[i].total_spent = SpentOn(AllSeen, k)
                    /\ store[i].events_attended = Cardinality(EventsOf(AllSeen, k))

C6_RunAlwaysReports == outcome \notin {"error500", "rejected"}

\* C9: with both calendars configured, when the event enumeration of one
\* broke off after a page, the run ends with its result, both calendars
\* have their entry in results.calendars, and the entry of the calendar
\* that broke off counts the events fetched before.
C9_FailedSourceDoesNotStopRun ==
    (pc = "ended" /\ partial # {} /\ apiKeys = {1, 2}) =>
        /\ outcome = "result"
        /\ \A c \in apiKeys :
              \E i \in 1..Len(results.calendars) :
                  /\ results.calendars[i].name = CalendarName(c)
                  /\ c \in partial => results.calendars[i].events = 1

-----------------------------------------------------------------------------
(* Properties of the upsert loop *)

RECURSIVE SizeSum(_, _)
\* the sizes of the logged batches whose outcome is ok, added up
SizeSum(log, ok) ==
    IF log = <<>> THEN 0
    ELSE (IF Head(log).ok = ok THEN Head(log).size ELSE 0) + SizeSum(Tail(log), ok)

\* C10: the batches are the consecutive slices of at most 100 contacts; the
\* error count is the number of contacts in the failed batches and the
\* imported count that of the others; and when the loop ends every contact
\* has been in one batch, whichever batches failed before.
C10_BatchFailureIsLocal ==
    /\ \A k \in 1..Len(batchLog) :
          /\ batchLog[k].from = (k - 1) * UpsertBatchSize
          /\ batchLog[k].size = Min(UpsertBatchSize, Len(contacts) - batchLog[k].from)
          /\ batchLog[k].size >= 1
    /\ results.errors = SizeSum(batchLog, FALSE)
    /\ results.imported = SizeSum(batchLog, TRUE)
    /\ pc = "calendar" =>
          SizeSum(batchLog, FALSE) + SizeSum(batchLog, TRUE) = Len(contacts)

C10_Witness ==
    /\ pc = "calendar"
    /\ Len(contacts) = 250
    /\ Len(batchLog) = 3
    /\ ~batchLog[1].ok /\ batchLog[2].ok /\ ~batchLog[3].ok
    /\ results.errors = 150
    /\ results.imported = 100

-----------------------------------------------------------------------------
(* The sink's place in the run *)

\* the calendar slots whose guests the run has fetched and merged
MergedSlots == { c \in apiKeys : c < cal \/ (c = cal /\ pc = "upsert") }

\* C11: an upsert is issued only after the guests of every configured
\* calendar have been fetched and merged, and a run that reports its result
\* has sent as many contacts to the store as it met distinct persons, each
\* of them once.
C11_SinkOnceAfterAllSources ==
    /\ batchLog # <<>> => MergedSlots = apiKeys
    /\ outcome = "result" =>
          SizeSum(batchLog, TRUE) + SizeSum(batchLog, FALSE)
              = Cardinality(SeenKeys(AllSeen))

-----------------------------------------------------------------------------
(* The fold on sightings of one person that differ in their optional data *)

\* the registration_answers a guest may carry
AnswerLists ==
    { <<>>,
      << Answer("Telegram", "@t1") >>,
      << Answer("LinkedIn", "in/l1") >>,
      << Answer("Telegram", "@t2"), Answer("LinkedIn", "in/l2") >> }

\* Sightings of one person at one event, with and without a phone number, a
\* wallet address and answers to the telegram and linkedin questions.
BackfillGuests ==
    { Answering(Guest("u1", "a@x.com", Absent, "evt-1", {}, phone, eth, 1), answers) :
        phone \in {Absent, "p1", "p2"}, eth \in {Absent, "0xX"},
        answers \in AnswerLists }

NextBackfill ==
    \/ \E g \in BackfillGuests : FoldPage(g)
    \/ \E g \in BackfillGuests : FoldSync(g)
    \/ ReturnPage
    \/ ReturnSync

SpecBackfill == InitMerge /\ [][NextBackfill]_vars

\* the optional fields of a contact the fold fills in
OptionalFields == {"phone", "eth_address", "telegram", "linkedin"}

\* what a sighting has to give for the optional field f
Offered(g, f) ==
    CASE f = "phone" -> g.phone_number
      [] f = "eth_address" -> g.eth_address
      [] f = "telegram" -> ExtractSocialHandle(g.registration_answers, {"telegram"})
      [] f = "linkedin" -> ExtractSocialHandle(g.registration_answers, {"linkedin"})

\* C12: folding a sighting never changes an optional field (phone, wallet
\* address, telegram or linkedin handle) of a contact that already holds a
\* value in it, and never removes a contact.
C12_SetFieldsAreKept ==
    [][ /\ Len(contactMap') >= Len(contactMap)
        /\ \A i \in 1..Len(contactMap) :
              /\ contactMap'[i].key = contactMap[i].key
              /\ \A f \in OptionalFields :
                    contactMap[i].value[f] # Absent =>
                        contactMap'[i].value[f] = contactMap[i].value[f] ]_vars

\* both mergers alike have folded a sighting that offers another phone
\* number and another telegram handle than the contact holds
C12_Witness ==
    /\ Len(folded) >= 2
    /\ Len(contactMap) = 1
    /\ Offered(folded[1], "phone") = "p1"
    /\ Offered(folded[2], "phone") = "p2"
    /\ Offered(folded[1], "telegram") = "@t1"
    /\ Offered(folded[2], "telegram") = "@t2"
    /\ Offered(folded[2], "linkedin") = "in/l2"
    /\ contactMap[1].value.phone = "p1"
    /\ contactMap[1].value.telegram = "@t1"


\* the contact map the running merger makes of the guests gs
FoldOf(gs) ==
    IF merger = "page" THEN DedupMergeAll(<<>>, gs)
    ELSE SyncMergeAll(<<>>, gs, CalendarName(1))

\* the guests folded so far, taken in the order p
Reordered(p) == [i \in 1..Len(folded) |-> folded[p[i]]]

\* the value the running merger gives under key k when it folds gs
ContactOf(gs, k) == FoldOf(gs)[MapIndex(FoldOf(gs), k)].value

\* at most one of the sightings folded so far offers a value for field f
OfferedAtMostOnce(f) ==
    Cardinality({ i \in 1..Len(folded) : Offered(folded[i], f) # Absent }) <= 1

\* C13: when every optional field is offered by at most one of the sightings
\* folded into a contact, the contact's optional fields are the same in
\* whichever order the sightings are folded: A(phone null, eth X) and
\* B(phone Y, eth null) give phone Y and eth X both ways.
C13_BackfillOrderFree ==
    (\A f \in OptionalFields : OfferedAtMostOnce(f)) =>
        \A p \in Permutations(1..Len(folded)) :
            \A i \in 1..Len(contactMap) : \A f \in OptionalFields :
                ContactOf(Reordered(p), contactMap[i].key)[f] = contactMap[i].value[f]

-----------------------------------------------------------------------------
(* deduplicateContacts on sightings in any order *)

\* the dates a guest may carry: created_at and registered_at (0: missing)
GuestDates == { <<2, 0>>, <<1, 3>>, <<1, 1>> }

\* Sightings of two persons, one known by a person id and one by an email
\* alone, at a free event without ticket and at a paid one, registered at
\* different dates or with no registered_at.
OrderGuests ==
    { CreatedAt(Guest(who[1], who[2], Absent, ev[1], ev[2], Absent, Absent, 1),
                d[1], d[2]) :
        who \in { <<"u1", "a@x.com">>, <<Absent, "b@y.com">> },
        ev \in { <<"evt-1", {}>>, <<"evt-2", {5}>> }, d \in GuestDates }

InitOrder ==
    /\ merger = "page"
    /\ folded = <<>>
    /\ contactMap = <<>>
    /\ mphase = "folding"
    /\ uniqueContacts = <<>>
    /\ FetchIdle
    /\ SyncIdle
    /\ BoardIdle
    /\ ClearIdle
    /\ CoordIdle

NextOrder ==
    \/ \E g \in OrderGuests : FoldPage(g)
    \/ ReturnPage

SpecOrder == InitOrder /\ [][NextOrder]_vars

\* the earliest date among the sightings at the positions in S
EarliestDate(S) ==
    CHOOSE d \in { GuestDate(folded[i]) : i \in S } :
        \A i \in S : d <= GuestDate(folded[i])

\* C14: every contact's first_seen is the earliest date (registered_at, or
\* created_at where that is missing) among all sightings folded into it, in
\* the map while it is folded and in the array returned.
C14_FirstSeenIsEarliest ==
    /\ \A i \in 1..Len(contactMap) :
          contactMap[i].value.first_seen = EarliestDate(Sightings(contactMap[i].key))
    /\ \A i \in 1..Len(uniqueContacts) :
          uniqueContacts[i].first_seen = EarliestDate(Sightings(uniqueContacts[i].user_api_id))

\* a contact returned whose earliest sighting was folded last, after a later
\* one and one without registered_at
C14_Witness ==
    /\ mphase = "returned"
    /\ Len(folded) = 3
    /\ Len(uniqueContacts) = 1
    /\ GuestDate(folded[1]) = 3
    /\ folded[2].registered_at = 0
    /\ GuestDate(folded[3]) = 1
    /\ uniqueContacts[1].first_seen = 1

\* C18: folding the guests in any other order gives the same contacts (the
\* same keys) and, for every contact, the same events_count, total_spent
\* and first_seen.
C18_FoldOrderFree ==
    \A p \in Permutations(1..Len(folded)) :
        LET other == FoldOf(Reordered(p))
        IN  /\ MapKeys(other) = MapKeys(contactMap)
            /\ \A i \in 1..Len(contactMap) :
                  LET c == contactMap[i].value
                      d == other[MapIndex(other, contactMap[i].key)].value
                  IN  /\ d.events_count = c.events_count
                      /\ d.total_spent = c.total_spent
                      /\ d.first_seen = c.first_seen

\* two persons, one of them met twice with different dates and amounts and
\* the other folded between these two sightings
C18_Witness ==
    /\ Len(folded) = 3
    /\ Len(contactMap) = 2
    /\ KeyOf(folded[1]) = KeyOf(folded[3])
    /\ KeyOf(folded[1]) # KeyOf(folded[2])
    /\ GuestDate(folded[1]) > GuestDate(folded[3])
    /\ TicketAmount(folded[1]) # TicketAmount(folded[3])
    /\ contactMap[1].value.events_count = 2
    /\ contactMap[1].value.total_spent = 5

-----------------------------------------------------------------------------
(* A run without configured source *)

\* C15: a run started with no API key in either slot does not end with a
\* reported result; it ends as a failure, having issued no upsert and
\* counted nothing.
C15_NoSourceIsFatal ==
    (apiKeys = {} /\ pc = "ended") =>
        /\ outcome # "result"
        /\ batchLog = <<>>
        /\ results = NoResults

-----------------------------------------------------------------------------
(* The kanban board: drag and drop, and PATCH /api/leads/[id]/stage *)

MaxDrags == 2

\* STAGES, the ids of the columns
STAGES == {"lead", "contact", "engaged", "partner", "vip", "inactive"}

\* VALID_STAGES of the route
VALID_STAGES == {"lead", "contact", "engaged", "partner", "vip", "inactive"}

\* the check constraint on contacts.relationship_stage
StageCheck == {"lead", "engaged", "partner", "vip", "inactive"}

LeadIds == {"l1", "l2"}

\* lead.relationship_stage || 'lead': the column a lead is shown in
ColumnOf(stage) == Or(stage, "lead")

\* What the PATCH handler can answer to { stage }: 400 for a stage that is
\* not valid, 500 when the update fails (as it does on a stage the table's
\* check constraint refuses) or the credentials are missing, 200 otherwise.
PatchStatuses(stage) ==
    IF stage \notin VALID_STAGES THEN {400}
    ELSE IF stage \notin StageCheck THEN {500}
    ELSE {200, 500}

InitBoard ==
    /\ initialLeads \in [LeadIds -> {Absent, "vip"}]
    /\ leads = initialLeads
    /\ dbStage = initialLeads
    /\ activeId = Absent
    /\ bpc = "idle"
    /\ overId = Absent
    /\ dragged = Absent
    /\ dragFrom = Absent
    /\ drags = 0
    /\ patchLog = <<>>
    /\ MergeIdle
    /\ FetchIdle
    /\ SyncIdle
    /\ ClearIdle
    /\ CoordIdle

\* handleDragStart for the card id
DragStart(id) ==
    /\ bpc \in {"idle", "dropped", "reverted"}
    /\ drags < MaxDrags
    /\ activeId' = id
    /\ bpc' = "dragging"
    /\ overId' = Absent
    /\ dragged' = id
    /\ dragFrom' = ColumnOf(leads[id])
    /\ drags' = drags + 1
    /\ UNCHANGED <<initialLeads, leads, patchLog, dbStage>>
    /\ UNCHANGED <<mergeVars, fetchVars, syncVars, clearVars, coordVars>>

\* handleDragOver with the card over the column or card over, or over
\* nothing (Absent): over a column other than the card's, the card is
\* moved to it in the board's state. DndContext calls onDragOver when what
\* the card is over changes.
DragOver(over) ==
    /\ bpc = "dragging"
    /\ over # overId
    /\ overId' = over
    /\ leads' = IF over \in STAGES /\ ColumnOf(leads[activeId]) # over
                THEN [leads EXCEPT ![activeId] = over]
                ELSE leads
    /\ UNCHANGED <<initialLeads, activeId, bpc, dragged, dragFrom, drags, patchLog,
                   dbStage>>
    /\ UNCHANGED <<mergeVars, fetchVars, syncVars, clearVars, coordVars>>

\* targetStage of handleDragEnd: the column dropped on, or the column of
\* the card dropped on
TargetStage(over) == IF over \in STAGES THEN over ELSE ColumnOf(leads[over])

\* handleDragEnd up to its fetch: the request is issued when the target
\* stage differs from the stage the card has in the board's state, which is
\* the state as handleDragOver left it (DndContext calls the handler of the
\* latest render). The card is dropped on what it was last reported over.
DragEnd(over) ==
    /\ bpc = "dragging"
    /\ over = overId
    /\ activeId' = Absent
    /\ IF over # Absent /\ TargetStage(over) # ColumnOf(leads[activeId])
       THEN /\ leads' = [leads EXCEPT ![activeId] = TargetStage(over)]
            /\ patchLog' = Append(patchLog,
                  [id |-> activeId, stage |-> TargetStage(over), drag |-> drags])
            /\ bpc' = "awaiting"
       ELSE /\ bpc' = "dropped"
            /\ UNCHANGED <<leads, patchLog>>
    /\ UNCHANGED <<initialLeads, overId, dragged, dragFrom, drags, dbStage>>
    /\ UNCHANGED <<mergeVars, fetchVars, syncVars, clearVars, coordVars>>

\* The request is answered with status (or fetch rejects): the handler of
\* the route has updated the row when it answers 200; handleDragEnd puts the
\* board back to initialLeads on any other outcome.
PatchAnswer(status) ==
    /\ bpc = "awaiting"
    /\ LET req == patchLog[Len(patchLog)]
       IN  /\ status \in PatchStatuses(req.stage) \cup {NetworkError}
           /\ IF status = 200
              THEN /\ dbStage' = [dbStage EXCEPT ![req.id] = req.stage]
                   /\ UNCHANGED leads
              ELSE /\ leads' = initialLeads
                   /\ UNCHANGED dbStage
    /\ bpc' = (IF status = 200 THEN "idle" ELSE "reverted")
    /\ UNCHANGED <<initialLeads, activeId, overId, dragged, dragFrom, drags, patchLog>>
    /\ UNCHANGED <<mergeVars, fetchVars, syncVars, clearVars, coordVars>>

\* what a card can be over: a column, a card, or nothing
DropTargets == STAGES \cup LeadIds \cup {Absent}

NextBoard ==
    \/ \E id \in LeadIds : DragStart(id)
    \/ \E over \in DropTargets : DragOver(over)
    \/ \E over \in DropTargets : DragEnd(over)
    \/ \E status \in {200, 400, 500, NetworkError} : PatchAnswer(status)

SpecBoard == InitBoard /\ [][NextBoard]_vars

\* C16: when a drop has ended a drag and the card is shown in another
\* column than the one the drag began in, a PATCH request for this card and
\* the stage of that column has been issued for this drop.
C16_DropIsPersisted ==
    (bpc \in {"dropped", "awaiting"} /\ ColumnOf(leads[dragged]) # dragFrom) =>
        /\ patchLog # <<>>
        /\ patchLog[Len(patchLog)] =
              [id |-> dragged, stage |-> ColumnOf(leads[dragged]), drag |-> drags]

-----------------------------------------------------------------------------
(* DELETE /api/leads/clear *)

\* batchSize of the batched handler
ClearBatchSize == 100

InitClear ==
    /\ cvariant \in {"batched", "single"}
    /\ cpc = "start"
    /\ rows \in 0..MaxContacts
    /\ selected = 0
    /\ totalDeleted = 0
    /\ response = "none"
    /\ MergeIdle
    /\ FetchIdle
    /\ SyncIdle
    /\ BoardIdle
    /\ CoordIdle

\* getSupabase(): without credentials it throws and the catch answers 500
ClearStart(configured) ==
    /\ cpc = "start"
    /\ IF configured
       THEN cpc' = "loop" /\ UNCHANGED response
       ELSE cpc' = "done" /\ response' = "error500"
    /\ UNCHANGED <<cvariant, rows, selected, totalDeleted>>
    /\ UNCHANGED <<mergeVars, fetchVars, syncVars, boardVars, coordVars>>

\* Head of the while loop: select('id').limit(batchSize). A fetchError and
\* an empty batch both break, and after the loop the handler answers
\* { success: true }.
SelectBatch(ok) ==
    /\ cvariant = "batched"
    /\ cpc = "loop"
    /\ IF ok /\ rows > 0
       THEN /\ selected' = Min(rows, ClearBatchSize)
            /\ cpc' = "delete"
            /\ UNCHANGED response
       ELSE /\ cpc' = "done"
            /\ response' = "success"
            /\ UNCHANGED selected
    /\ UNCHANGED <<cvariant, rows, totalDeleted>>
    /\ UNCHANGED <<mergeVars, fetchVars, syncVars, boardVars, coordVars>>

\* Rest of the loop body: delete().in('id', ids); a deleteError answers 500.
DeleteBatch(ok) ==
    /\ cvariant = "batched"
    /\ cpc = "delete"
    /\ IF ok
       THEN /\ rows' = rows - selected
            /\ totalDeleted' = totalDeleted + selected
            /\ cpc' = "loop"
            /\ UNCHANGED response
       ELSE /\ cpc' = "done"
            /\ response' = "error500"
            /\ UNCHANGED <<rows, totalDeleted>>
    /\ UNCHANGED <<cvariant, selected>>
    /\ UNCHANGED <<mergeVars, fetchVars, syncVars, boardVars, coordVars>>

\* The handler that deletes with one statement: delete().neq('id', '')
DeleteAll(ok) ==
    /\ cvariant = "single"
    /\ cpc = "loop"
    /\ cpc' = "done"
    /\ IF ok
       THEN /\ rows' = 0
            /\ totalDeleted' = rows
            /\ response' = "success"
       ELSE /\ response' = "error500"
            /\ UNCHANGED <<rows, totalDeleted>>
    /\ UNCHANGED <<cvariant, selected>>
    /\ UNCHANGED <<mergeVars, fetchVars, syncVars, boardVars, coordVars>>

NextClear ==
    \/ \E configured \in BOOLEAN : ClearStart(configured)
    \/ \E ok \in BOOLEAN : SelectBatch(ok)
    \/ \E ok \in BOOLEAN : DeleteBatch(ok)
    \/ \E ok \in BOOLEAN : DeleteAll(ok)

SpecClear == InitClear /\ [][NextClear]_vars

\* C17: when the handler has answered success the contacts table is empty,
\* and every pass of the loop that does not end it leaves fewer rows than
\* there were.
C17_SuccessMeansEmpty ==
    /\ response = "success" => rows = 0
    /\ (cpc = "loop" /\ totalDeleted > 0) => selected >= 1

-----------------------------------------------------------------------------
(* The identity key, and records without one *)

\* the contact of the map that the sighting g was folded into, 0 for none
ContactIndex(g) == MapIndex(contactMap, KeyOf(g))

\* C19: two sightings with the same person id are folded into one contact
\* even if their emails differ, and two sightings without person id whose
\* emails differ at most in letter case are folded into one contact.
C19_KeyIsPersonIdElseEmail ==
    \A i, j \in 1..Len(folded) :
        LET a == folded[i]
            b == folded[j]
        IN  /\ (i # j /\ a.user_api_id # Absent /\ a.user_api_id = b.user_api_id) =>
                  (ContactIndex(a) # 0 /\ ContactIndex(a) = ContactIndex(b))
            /\ (/\ i # j
                /\ a.user_api_id = Absent /\ b.user_api_id = Absent
                /\ a.user_email = Absent /\ b.user_email = Absent
                /\ a.email # Absent
                /\ ToLowerCase(a.email) = ToLowerCase(b.email)) =>
                  (ContactIndex(a) # 0 /\ ContactIndex(a) = ContactIndex(b))

\* the records of gs that have neither a person id nor an email
Keyless(gs) ==
    { i \in 1..Len(gs) : gs[i].user_api_id = Absent /\ gs[i].email = Absent
                          /\ gs[i].user_email = Absent }

\* C20: a run whose requests and upserts all succeeded reports as errors
\* the number of guest records it met that have neither person id nor
\* email, and has made no contact of them.
C20_KeylessCountsAsError ==
    (outcome = "result" /\ cleanRun) =>
        /\ results.errors = Cardinality(Keyless(AllSeen))
        /\ \A i \in 1..Len(store) : store[i].email # Absent

-----------------------------------------------------------------------------
(* Pagination against upstreams whose has_more and next_cursor disagree *)

\* an upstream whose last page says has_more and carries no next_cursor
HasMoreNoCursor(n) == [PagesOf(n) EXCEPT ![n].has_more = TRUE]

\* an upstream whose first page carries a next_cursor and does not say
\* has_more
CursorNoHasMore(n) == [PagesOf(n) EXCEPT ![1].has_more = FALSE]

\* what list-events / get-guests may answer page by page
Upstreams ==
    { PagesOf(n) : n \in 1..MaxPages }
        \cup { HasMoreNoCursor(n) : n \in 1..MaxPages }
        \cup { CursorNoHasMore(n) : n \in 2..MaxPages }

InitPaging ==
    /\ fvariant \in {"full", "page", "plain"}
    /\ pages \in Upstreams
    /\ fphase = "fetching"
    /\ pageNo = 1
    /\ attempt = 0
    /\ pageLog = <<>>
    /\ respLog = <<>>
    /\ reqLog = <<>>
    /\ waited = 0
    /\ fetchedGuests = <<>>
    /\ lastRes = "none"
    /\ MergeIdle
    /\ SyncIdle
    /\ BoardIdle
    /\ ClearIdle
    /\ CoordIdle

SpecPaging == InitPaging /\ [][NextFetch]_vars

\* C21: once a page has arrived without a continuation cursor the
\* enumeration has returned, and no request without a cursor is issued after
\* a page has been fetched: the first page is not requested again.
C21_StopsWithoutCursor ==
    /\ (lastRes = "ok" /\ pageNo = 1) => fphase = "returned"
    /\ \A i \in 2..Len(reqLog) :
          reqLog[i] = 0 => \A j \in 1..(i - 1) : respLog[j] # 200

\* every page but the last says has_more and names the next page, the last
\* page does neither
Chained(ps) == ps = PagesOf(Len(ps))

AllOk(log) == \A i \in 1..Len(log) : log[i] = 200

ReturnValue == fetchedGuests

\* what an enumeration that fetched every page of some upstream returns
CompleteLists == { Flatten(PagesOf(n)) : n \in 1..MaxPages }

\* C23: what an enumeration returns after a page fetch has failed tells the
\* caller so: it is not a value that a complete enumeration returns.
C23_PartialIsTold ==
    (fphase = "returned" /\ lastRes = "null") => ReturnValue \notin CompleteLists

Last(log) == log[Len(log)]

OnlyNetworkErrors(log) == \A i \in 1..Len(log) : log[i] = NetworkError

\* C25: a page whose every request failed with a network error is given up
\* after fewer requests than fetchWithRetry allows to a page that is
\* answered 429 every time.
C25_NetworkGivesUpSooner ==
    (/\ fvariant = "full"
     /\ fphase = "returned"
     /\ lastRes = "null"
     /\ pageLog # <<>>
     /\ OnlyNetworkErrors(pageLog)) => Len(pageLog) < FetchWithRetryMax

\* C26: a step of guest enumeration, whatever the request is answered with,
\* leaves the run in the guest loop at the next event with every guest
\* gathered so far: a rejection neither ends the run nor drops a list.
C26_RejectionIsIsolated ==
    [][(pc = "guests" /\ gIdx <= Len(events)) =>
          (pc' = "guests" /\ gIdx' = gIdx + 1 /\ Len(allGuests') >= Len(allGuests))]_vars

-----------------------------------------------------------------------------
(* The coordination of the guest enumerations *)

\* batchSize of fetchLumaData
PageBatchSize == 5

\* batchSize of the sync route
RouteBatchSize == 10

Sources == {1, 2}

BatchSize == IF coord = "page" THEN PageBatchSize ELSE RouteBatchSize

\* events.slice(i, i + batchSize) of source s, one enumeration an event
Batch(s, i) ==
    { [source |-> s, event |-> e] : e \in (i + 1)..Min(i + BatchSize, srcEvents[s]) }

InitCoord ==
    /\ coord \in {"page", "route"}
    /\ srcEvents \in [Sources -> {1, BatchSize + 1}]
    /\ srcPc = [s \in Sources |-> "waiting"]
    /\ srcI = [s \in Sources |-> 0]
    /\ inflight = {}
    /\ MergeIdle
    /\ FetchIdle
    /\ SyncIdle
    /\ BoardIdle
    /\ ClearIdle

\* The coordinator turns to source s and requests its events. The page hands
\* both fetchLumaData calls to one Promise.all: the second is called as soon
\* as the first has reached its first await. The route's for-of loop comes to
\* the second source when the first is done.
StartSource(s) ==
    /\ srcPc[s] = "waiting"
    /\ \A t \in Sources :
          t < s => IF coord = "page" THEN srcPc[t] # "waiting" ELSE srcPc[t] = "done"
    /\ srcPc' = [srcPc EXCEPT ![s] = "events"]
    /\ UNCHANGED <<coord, srcEvents, srcI, inflight>>
    /\ UNCHANGED <<mergeVars, fetchVars, syncVars, boardVars, clearVars>>

\* await fetchAllEvents returns; the batch loop starts and maps the first
\* batch to its enumerations, all begun before the await.
EventsArrive(s) ==
    /\ srcPc[s] = "events"
    /\ srcPc' = [srcPc EXCEPT ![s] = "batch"]
    /\ srcI' = [srcI EXCEPT ![s] = 0]
    /\ inflight' = inflight \cup Batch(s, 0)
    /\ UNCHANGED <<coord, srcEvents>>
    /\ UNCHANGED <<mergeVars, fetchVars, syncVars, boardVars, clearVars>>

\* An enumeration settles: fulfilled, or, once its Promise.all has been
\* rejected already, in any way.
Settle(x) ==
    /\ x \in inflight
    /\ inflight' = inflight \ {x}
    /\ UNCHANGED <<coord, srcEvents, srcPc, srcI>>
    /\ UNCHANGED <<mergeVars, fetchVars, syncVars, boardVars, clearVars>>

\* An enumeration of the route rejects (its fetch() is not caught): the
\* batch's Promise.all rejects and the await throws out of both loops while
\* the other enumerations of the batch are still running. The page's
\* fetchAllGuests catches what its fetch() throws and never rejects.
Reject(x) ==
    /\ coord = "route"
    /\ x \in inflight
    /\ srcPc[x.source] = "batch"
    /\ inflight' = inflight \ {x}
    /\ srcPc' = [srcPc EXCEPT ![x.source] = "failed"]
    /\ UNCHANGED <<coord, srcEvents, srcI>>
    /\ UNCHANGED <<mergeVars, fetchVars, syncVars, boardVars, clearVars>>

\* Promise.all / Promise.allSettled of the batch resolves; i += batchSize
\* and either the next batch is begun or the source is done.
NextBatch(s) ==
    /\ srcPc[s] = "batch"
    /\ \A x \in inflight : x.source # s
    /\ LET i == srcI[s] + BatchSize
       IN  /\ srcI' = [srcI EXCEPT ![s] = i]
           /\ IF i < srcEvents[s]
              THEN /\ inflight' = inflight \cup Batch(s, i)
                   /\ UNCHANGED srcPc
              ELSE /\ srcPc' = [srcPc EXCEPT ![s] = "done"]
                   /\ UNCHANGED inflight
    /\ UNCHANGED <<coord, srcEvents>>
    /\ UNCHANGED <<mergeVars, fetchVars, syncVars, boardVars, clearVars>>

Enumerations == { [source |-> s, event |-> e] : s \in Sources, e \in 1..(RouteBatchSize + 1) }

NextCoord ==
    \/ \E s \in Sources : StartSource(s)
    \/ \E s \in Sources : EventsArrive(s)
    \/ \E x \in Enumerations : Settle(x)
    \/ \E x \in Enumerations : Reject(x)
    \/ \E s \in Sources : NextBatch(s)

SpecCoord == InitCoord /\ [][NextCoord]_vars

\* the batch an enumeration belongs to
BatchOf(x) == (x.event - 1) \div BatchSize

\* the source's events or guests are being requested
Enumerating(s) == srcPc[s] \in {"events", "batch"}

\* C27: the enumerations in flight are at most batchSize, all of one batch
\* of one source, and no two sources are being enumerated at once.
C27_OneBatchOfOneSource ==
    /\ Cardinality(inflight) <= BatchSize
    /\ \A x, y \in inflight : x.source = y.source /\ BatchOf(x) = BatchOf(y)
    /\ \A s, t \in Sources : (Enumerating(s) /\ Enumerating(t)) => s = t

-----------------------------------------------------------------------------
(* The counters of a run *)

\* C28: when a run has ended, the contacts counted as imported and those
\* counted as errors together are the contacts the run prepared.
C28_CountsAddUp ==
    pc = "ended" => results.imported + results.errors = results.totalContacts

C28_Witness ==
    /\ pc = "ended"
    /\ outcome = "result"
    /\ Len(batchLog) = 2
    /\ ~batchLog[1].ok
    /\ batchLog[2].ok
    /\ results.errors = 2
    /\ results.imported = 1
    /\ results.totalContacts = 3

-----------------------------------------------------------------------------
(* The board after a failed move, and the stages the store accepts *)

\* C29: after a PATCH of a drop has failed, every lead is shown in the
\* column of the stage the server holds for it.
C29_OnlyFailedMoveUndone ==
    bpc = "reverted" =>
        \A id \in LeadIds : ColumnOf(leads[id]) = ColumnOf(dbStage[id])

\* C30: every stage that a request passed through the route's validation
\* with is a stage the store can take: the update of the row can succeed.
C30_ValidatedStageIsStorable ==
    \A k \in 1..Len(patchLog) :
        patchLog[k].stage \in VALID_STAGES => 200 \in PatchStatuses(patchLog[k].stage)

=============================================================================
